---- MODULE Spec2Model ----
(***************************************************************************)
(* A model of LeveledHashMap<K, V> (src/src/lib.rs): a map whose entries   *)
(* live at integer levels, each entry below level 0 recording the key of   *)
(* its parent one level up.                                                *)
(*                                                                         *)
(*   pool : Vec<HashMap<Arc<K>, (Option<Arc<K>>, V)>>                     *)
(*   sub  : Vec<HashMap<Arc<K>, HashSet<Arc<K>>>>                         *)
(*                                                                         *)
(* A Vec is a sequence (level L of the code is index L + 1 here), a        *)
(* HashMap is a function whose domain is the set of its keys, a HashSet is *)
(* a set, and an Option is a sequence of length 0 (None) or 1 (Some).      *)
(* Arc<K> keys compare by the value of K, so a key is its value.           *)
(* A panic (a failed unwrap) ends the run: the state it leaves behind is   *)
(* the state at the point of the panic and no further call is made.        *)
(***************************************************************************)
EXTENDS Integers, Sequences, FiniteSets, TLC

VARIABLES pool, sub, last, nmut

vars == <<pool, sub, last, nmut>>

\* ------------------------------------------------------------------ bounds

\* Longest key chain a caller passes.
MaxChainLen == 3

\* Largest start level a caller passes.
MaxStart == 1

\* Longest parent chain a caller passes to insert_many.
MaxParentLen == 1

\* Longest key chain a caller passes to remove_professional.
MaxRemoveLen == 2

\* Longest key chain a caller passes to get_professional_mut.
MaxMutLen == 2

\* Most entries in the HashMap a caller passes to insert_many.
MaxBatch == 2

\* Most calls that change the map in one run.
MaxMut == 3

\* Most levels the map is allowed to grow to.
MaxLevels == 3

\* In the runs that grow deep trees: the longest chain passed to insert, the
\* largest start level passed to remove_professional and to insert_many, and
\* the most calls that change the map.
MaxDeepLen == 4

MaxDeepStart == 3

MaxDeepMut == 6

\* The keys (values of K) and the values (of V) callers use.
Keys == {"a", "b"}

Values == {"v1", "v2"}

\* ------------------------------------------------------------ input domains

SeqsUpTo(S, n) == UNION {[1..m -> S] : m \in 0..n}

Chains == SeqsUpTo(Keys, MaxChainLen)

ParentChains == SeqsUpTo(Keys, MaxParentLen)

RemoveChains == SeqsUpTo(Keys, MaxRemoveLen)

MutChains == SeqsUpTo(Keys, MaxMutLen)

StartLevels == 0..MaxStart

DeepChains == SeqsUpTo(Keys, MaxDeepLen)

DeepStartLevels == 0..MaxDeepStart

\* The deep runs store one value, so that the trees, not the values, vary.
DeepValues == {"v1"}

DeepBatches == UNION {[D -> DeepValues] : D \in {E \in SUBSET Keys : Cardinality(E) <= MaxBatch}}

\* The HashMap<K, V> arguments of insert_many.
Batches == UNION {[D -> Values] : D \in {E \in SUBSET Keys : Cardinality(E) <= MaxBatch}}

\* All orders in which the elements of a finite set can be iterated.
Orders(S) == {o \in [1..Cardinality(S) -> S] : \A i, j \in DOMAIN o : o[i] = o[j] => i = j}

\* ------------------------------------------------------- Option and HashMap

None == <<>>

Some(x) == <<x>>

\* HashMap::new()
EmptyMap == [k \in {} |-> {}]

\* HashMap::insert(k, x), the returned previous value aside.
MapInsert(m, k, x) == [j \in (DOMAIN m) \cup {k} |-> IF j = k THEN x ELSE m[j]]

\* HashMap::remove(k), the returned value aside.
MapRemove(m, k) == [j \in (DOMAIN m) \ {k} |-> m[j]]

\* A pool entry (Option<Arc<K>>, V).
Entry(pk, v) == [pk |-> pk, v |-> v]

\* ------------------------------------------------------------------ results

Ok(pk, v) == [kind |-> "Ok", pk |-> pk, v |-> v]

KeyTooMany == [kind |-> "KeyTooMany"]

KeyChainEmpty == [kind |-> "KeyChainEmpty"]

KeyNotExist(level, key) == [kind |-> "KeyNotExist", level |-> level, key |-> key]

KeyChainIncorrect(level, key, last_key) ==
    [kind |-> "KeyChainIncorrect", level |-> level, key |-> key, last_key |-> last_key]

\* The call did not return: an unwrap of None or of an Err unwound the stack.
Panic == [kind |-> "Panic"]

ErrorKinds == {"KeyChainEmpty", "KeyTooMany", "KeyNotExist", "KeyChainIncorrect"}

IsErr(r) == r.kind \in ErrorKinds

\* What a mutating call leaves behind: the two vectors and what it returned.
Outcome(p, s, r) == [pool |-> p, sub |-> s, res |-> r]

\* ------------------------------------------------------------ the resolver

\* A resolver that only checks that each key exists at its level.
RECURSIVE walk_existence_only(_, _, _, _)
walk_existence_only(p, key_chain, start_level, i) ==
    LET ii == i + start_level
        ck == key_chain[i + 1]
    IN  IF ck \notin DOMAIN p[ii + 1]
        THEN KeyNotExist(ii, ck)
        ELSE IF i = Len(key_chain) - 1
             THEN Ok(p[ii + 1][ck].pk, p[ii + 1][ck].v)
             ELSE walk_existence_only(p, key_chain, start_level, i + 1)

\* A resolver that examines the chain from its last key back to its first.
RECURSIVE walk_backwards(_, _, _, _)
walk_backwards(p, key_chain, start_level, i) ==
    LET n == Len(key_chain) - 1 - i
        ii == n + start_level
        ck == key_chain[n + 1]
    IN  IF ck \notin DOMAIN p[ii + 1]
        THEN KeyNotExist(ii, ck)
        ELSE LET pk == p[ii + 1][ck].pk
                 last_key == IF n = 0 THEN None ELSE Some(key_chain[n])
             IN  IF ii > start_level /\ last_key # pk
                 THEN KeyChainIncorrect(ii, ck, pk)
                 ELSE IF i = Len(key_chain) - 1
                      THEN LET lk == key_chain[Len(key_chain)]
                           IN  Ok(p[Len(key_chain) + start_level][lk].pk,
                                  p[Len(key_chain) + start_level][lk].v)
                      ELSE walk_backwards(p, key_chain, start_level, i + 1)

\* A resolver that compares the stored parent of every key of the chain, the
\* first included, with the key before it (none for the first).
RECURSIVE walk_checking_first(_, _, _, _)
walk_checking_first(p, key_chain, start_level, i) ==
    LET ii == i + start_level
        ck == key_chain[i + 1]
    IN  IF ck \notin DOMAIN p[ii + 1]
        THEN KeyNotExist(ii, ck)
        ELSE LET pk == p[ii + 1][ck].pk
                 last_key == IF i = 0 THEN None ELSE Some(key_chain[i])
             IN  IF last_key # pk
                 THEN KeyChainIncorrect(ii, ck, pk)
                 ELSE IF i = Len(key_chain) - 1
                      THEN Ok(pk, p[ii + 1][ck].v)
                      ELSE walk_checking_first(p, key_chain, start_level, i + 1)

\* A resolver whose KeyChainIncorrect carries the key the caller supplied
\* before the failing one instead of the parent the entry stores.
RECURSIVE walk_reporting_caller(_, _, _, _)
walk_reporting_caller(p, key_chain, start_level, i) ==
    LET ii == i + start_level
        ck == key_chain[i + 1]
    IN  IF ck \notin DOMAIN p[ii + 1]
        THEN KeyNotExist(ii, ck)
        ELSE LET pk == p[ii + 1][ck].pk
                 last_key == IF i = 0 THEN None ELSE Some(key_chain[i])
             IN  IF ii > start_level /\ last_key # pk
                 THEN KeyChainIncorrect(ii, ck, last_key)
                 ELSE IF i = Len(key_chain) - 1
                      THEN Ok(pk, p[ii + 1][ck].v)
                      ELSE walk_reporting_caller(p, key_chain, start_level, i + 1)

\* The loop of get_professional from chain index i (0-based) on: the while
\* loop over the first len - 1 keys and the final match on the last one
\* perform the same lookup and the same parent comparison.
RECURSIVE walk(_, _, _, _)
walk(p, key_chain, start_level, i) ==
    LET ii == i + start_level
        ck == key_chain[i + 1]
    IN  IF ck \notin DOMAIN p[ii + 1]
        THEN KeyNotExist(ii, ck)
        ELSE LET pk == p[ii + 1][ck].pk
                 last_key == IF i = 0 THEN None ELSE Some(key_chain[i])
             IN  IF ii > start_level /\ last_key # pk
                 THEN KeyChainIncorrect(ii, ck, pk)
                 ELSE IF i = Len(key_chain) - 1
                      THEN Ok(pk, p[ii + 1][ck].v)
                      ELSE walk(p, key_chain, start_level, i + 1)

\* A resolver that tests the length against the levels before it tests for
\* the empty chain.
get_professional_length_first(p, key_chain, start_level) ==
    IF Len(key_chain) + start_level > Len(p) THEN KeyTooMany
    ELSE IF Len(key_chain) = 0 THEN KeyChainEmpty
    ELSE walk(p, key_chain, start_level, 0)

get_professional(p, key_chain, start_level) ==
    IF Len(key_chain) = 0 THEN KeyChainEmpty
    ELSE IF Len(key_chain) + start_level > Len(p) THEN KeyTooMany
    ELSE walk(p, key_chain, start_level, 0)

\* Option<&V>: .ok().map(|v| v.1)
get_advanced(p, key_chain, start_level) ==
    LET r == get_professional(p, key_chain, start_level)
    IN  IF r.kind = "Ok" THEN Some(r.v) ELSE None

get(p, key_chain) == get_advanced(p, key_chain, 0)

\* ------------------------------------------------------------------ insert

\* The Ok arm: the chain resolves, the entry is overwritten in place.
\* An Ok arm without the branch on the depth: the overwritten entry is
\* stored as a level-0 entry, with no parent.
insert_overwrite_parentless(p, s, key_chain, value) ==
    LET dec == Len(key_chain) - 1
        k == key_chain[dec + 1]
    IN  Outcome([p EXCEPT ![dec + 1] = MapInsert(@, k, Entry(None, value))], s,
                [kind |-> "Ok", old |-> Some(p[dec + 1][k].v)])

\* An Ok arm that registers a fresh child set for the entry it overwrites.
insert_overwrite_resetting(p, s, key_chain, value) ==
    LET dec == Len(key_chain) - 1
        k == key_chain[dec + 1]
        pk == IF dec > 0 THEN Some(key_chain[dec]) ELSE None
    IN  Outcome([p EXCEPT ![dec + 1] = MapInsert(@, k, Entry(pk, value))],
                [s EXCEPT ![dec + 1] = MapInsert(@, k, {})],
                [kind |-> "Ok", old |-> Some(p[dec + 1][k].v)])

insert_overwrite(p, s, key_chain, value) ==
    LET dec == Len(key_chain) - 1
        k == key_chain[dec + 1]
        pk == IF dec > 0 THEN Some(key_chain[dec]) ELSE None
    IN  Outcome([p EXCEPT ![dec + 1] = MapInsert(@, k, Entry(pk, value))], s,
                [kind |-> "Ok", old |-> Some(p[dec + 1][k].v)])

\* A KeyTooMany arm that looks the parent's child set up between the two
\* pushes: when the parent has none, the pool has grown and the index has not.
insert_new_level_lookup_first(p, s, key_chain, value) ==
    LET dec == Len(key_chain) - 1
        k == key_chain[dec + 1]
    IN  IF Len(p) = 0
        THEN Outcome(Append(p, MapInsert(EmptyMap, key_chain[1], Entry(None, value))),
                     Append(s, MapInsert(EmptyMap, key_chain[1], {})),
                     [kind |-> "Ok", old |-> None])
        ELSE LET parent == key_chain[dec]
                 p1 == Append(p, MapInsert(EmptyMap, k, Entry(Some(parent), value)))
                 s1 == Append(s, MapInsert(EmptyMap, k, {}))
             IN  IF dec > Len(s) \/ parent \notin DOMAIN s[dec]
                 THEN Outcome(p1, s, Panic)
                 ELSE Outcome(p1, [s1 EXCEPT ![dec][parent] = @ \cup {k}],
                              [kind |-> "Ok", old |-> None])

\* The KeyTooMany arm: the chain is one longer than the number of levels.
insert_new_level(p, s, key_chain, value) ==
    LET dec == Len(key_chain) - 1
        k == key_chain[dec + 1]
    IN  IF Len(p) = 0
        THEN Outcome(Append(p, MapInsert(EmptyMap, key_chain[1], Entry(None, value))),
                     Append(s, MapInsert(EmptyMap, key_chain[1], {})),
                     [kind |-> "Ok", old |-> None])
        ELSE LET parent == key_chain[dec]
                 p1 == Append(p, MapInsert(EmptyMap, k, Entry(Some(parent), value)))
                 s1 == Append(s, MapInsert(EmptyMap, k, {}))
             IN  IF dec > Len(s1) \/ parent \notin DOMAIN s1[dec]
                 THEN Outcome(p1, s1, Panic)
                 ELSE Outcome(p1, [s1 EXCEPT ![dec][parent] = @ \cup {k}],
                              [kind |-> "Ok", old |-> None])

\* The KeyNotExist arm: `level` and `key` are those of the resolver's error.
insert_not_exist(p, s, key_chain, value, level, key) ==
    LET dec == Len(key_chain) - 1
        k == key_chain[dec + 1]
        s1 == [s EXCEPT ![level + 1] = MapInsert(@, k, {})]
    IN  IF level > 0
        THEN LET parent == key_chain[dec]
                 p1 == [p EXCEPT ![level + 1] = MapInsert(@, key, Entry(Some(parent), value))]
             IN  IF parent \notin DOMAIN s1[level]
                 THEN Outcome(p1, s1, Panic)
                 ELSE Outcome(p1, [s1 EXCEPT ![level][parent] = @ \cup {k}],
                              [kind |-> "Ok", old |-> None])
        ELSE Outcome([p EXCEPT ![level + 1] = MapInsert(@, key, Entry(None, value))], s1,
                     [kind |-> "Ok", old |-> None])

\* An insert that takes a chain whose last key hangs under another parent for
\* an overwrite and moves the entry under the chain's parent.
insert_reparenting(p, s, key_chain, value) ==
    IF Len(key_chain) = 0 THEN Outcome(p, s, KeyChainEmpty)
    ELSE IF Len(key_chain) - 1 > Len(p) THEN Outcome(p, s, KeyTooMany)
    ELSE LET r == get_professional(p, key_chain, 0)
         IN  CASE r.kind = "Ok" -> insert_overwrite(p, s, key_chain, value)
               [] r.kind = "KeyChainEmpty" -> Outcome(p, s, KeyChainEmpty)
               [] r.kind = "KeyTooMany" -> insert_new_level(p, s, key_chain, value)
               [] r.kind = "KeyChainIncorrect" ->
                      IF r.level = Len(key_chain) - 1
                      THEN insert_overwrite(p, s, key_chain, value)
                      ELSE Outcome(p, s, r)
               [] r.kind = "KeyNotExist" ->
                      insert_not_exist(p, s, key_chain, value, r.level, r.key)

\* An insert whose depth check lets a chain through that skips a level.
insert_depth_off_by_one(p, s, key_chain, value) ==
    IF Len(key_chain) = 0 THEN Outcome(p, s, KeyChainEmpty)
    ELSE IF Len(key_chain) - 1 > Len(p) + 1 THEN Outcome(p, s, KeyTooMany)
    ELSE LET r == get_professional(p, key_chain, 0)
         IN  CASE r.kind = "Ok" -> insert_overwrite(p, s, key_chain, value)
               [] r.kind = "KeyChainEmpty" -> Outcome(p, s, KeyChainEmpty)
               [] r.kind = "KeyTooMany" -> insert_new_level(p, s, key_chain, value)
               [] r.kind = "KeyChainIncorrect" -> Outcome(p, s, r)
               [] r.kind = "KeyNotExist" ->
                      insert_not_exist(p, s, key_chain, value, r.level, r.key)

insert(p, s, key_chain, value) ==
    IF Len(key_chain) = 0 THEN Outcome(p, s, KeyChainEmpty)
    ELSE IF Len(key_chain) - 1 > Len(p) THEN Outcome(p, s, KeyTooMany)
    ELSE LET r == get_professional(p, key_chain, 0)
         IN  CASE r.kind = "Ok" -> insert_overwrite(p, s, key_chain, value)
               [] r.kind = "KeyChainEmpty" -> Outcome(p, s, KeyChainEmpty)
               [] r.kind = "KeyTooMany" -> insert_new_level(p, s, key_chain, value)
               [] r.kind = "KeyChainIncorrect" -> Outcome(p, s, r)
               [] r.kind = "KeyNotExist" ->
                      insert_not_exist(p, s, key_chain, value, r.level, r.key)

\* ------------------------------------------------------------- insert_many

\* The validation loop `for (k, v) in value`: the keys of the batch that exist
\* at `level` and make the loop leave, each with what it leaves with.  The
\* loop returns at the first such key it meets, and a HashMap is iterated in
\* an arbitrary order, so any of them can be the one.
insert_many_conflicts(p, value, level, last_key) ==
    {[key |-> k,
      res |-> IF p[level + 1][k].pk = None
              THEN Panic
              ELSE KeyChainIncorrect(level, k, p[level + 1][k].pk)] :
        k \in {j \in (DOMAIN value) \cap (DOMAIN p[level + 1]) :
                  p[level + 1][j].pk # Some(last_key)}}

\* The insertion loop `for (k, v) in temp`, in the order o, from its j-th key.
RECURSIVE insert_many_loop(_, _, _, _, _, _, _, _)
insert_many_loop(p, s, value, o, j, level, last_key, previous) ==
    IF j > Len(o) THEN Outcome(p, s, [kind |-> "Ok", previous |-> previous])
    ELSE LET k == o[j]
             p1 == [p EXCEPT ![level + 1] = MapInsert(@, k, Entry(Some(last_key), value[k]))]
         IN  IF k \in DOMAIN p[level + 1]
             THEN insert_many_loop(p1, s, value, o, j + 1, level, last_key,
                                   MapInsert(previous, k, p[level + 1][k].v))
             ELSE LET s1 == [s EXCEPT ![level + 1] = MapInsert(@, k, {})]
                  IN  IF last_key \notin DOMAIN s1[level]
                      THEN Outcome(p1, s1, Panic)
                      ELSE insert_many_loop(p1, [s1 EXCEPT ![level][last_key] = @ \cup {k}],
                                            value, o, j + 1, level, last_key, previous)

\* An Ok arm that checks and stores in one pass: the keys that do not
\* conflict are stored although the call fails for one that does.
insert_many_single_pass(p, s, key_chain, value, start_level) ==
    LET level == Len(key_chain) + start_level
        grow == level >= Len(p)
        p1 == IF grow THEN Append(p, EmptyMap) ELSE p
        s1 == IF grow THEN Append(s, EmptyMap) ELSE s
        last_key == key_chain[Len(key_chain)]
        bad == insert_many_conflicts(p1, value, level, last_key)
        good == (DOMAIN value) \ {b.key : b \in bad}
        stored == {insert_many_loop(p1, s1, value, o, 1, level, last_key, EmptyMap) :
                      o \in Orders(good)}
    IN  IF bad # {}
        THEN {Outcome(x.pool, x.sub, b.res) : b \in bad, x \in stored}
        ELSE stored

\* The Ok arm: the parent chain resolves.
insert_many_under(p, s, key_chain, value, start_level) ==
    LET level == Len(key_chain) + start_level
        grow == level >= Len(p)
        p1 == IF grow THEN Append(p, EmptyMap) ELSE p
        s1 == IF grow THEN Append(s, EmptyMap) ELSE s
        last_key == key_chain[Len(key_chain)]
        bad == insert_many_conflicts(p1, value, level, last_key)
    IN  IF bad # {}
        THEN {Outcome(p1, s1, b.res) : b \in bad}
        ELSE {insert_many_loop(p1, s1, value, o, 1, level, last_key, EmptyMap) :
                 o \in Orders(DOMAIN value)}

\* A KeyChainEmpty arm that registers an empty child set for every incoming
\* key, the ones it overwrites included.
insert_many_top_resetting(p, s, value) ==
    LET p1 == IF Len(p) = 0 THEN Append(p, EmptyMap) ELSE p
        s1 == IF Len(p) = 0 THEN Append(s, EmptyMap) ELSE s
        old == (DOMAIN value) \cap (DOMAIN p1[1])
    IN  Outcome([p1 EXCEPT ![1] = [k \in (DOMAIN @) \cup (DOMAIN value) |->
                                      IF k \in DOMAIN value THEN Entry(None, value[k]) ELSE @[k]]],
                [s1 EXCEPT ![1] = [k \in (DOMAIN @) \cup (DOMAIN value) |->
                                      IF k \in DOMAIN value THEN {} ELSE @[k]]],
                [kind |-> "Ok", previous |-> [k \in old |-> p1[1][k].v]])

\* The KeyChainEmpty arm at start level 0: the batch goes to level 0.  No
\* step of its loop depends on another, so the order of iteration is immaterial.
insert_many_top(p, s, value) ==
    LET p1 == IF Len(p) = 0 THEN Append(p, EmptyMap) ELSE p
        s1 == IF Len(p) = 0 THEN Append(s, EmptyMap) ELSE s
        old == (DOMAIN value) \cap (DOMAIN p1[1])
    IN  Outcome([p1 EXCEPT ![1] = [k \in (DOMAIN @) \cup (DOMAIN value) |->
                                      IF k \in DOMAIN value THEN Entry(None, value[k]) ELSE @[k]]],
                [s1 EXCEPT ![1] = [k \in (DOMAIN @) \cup ((DOMAIN value) \ old) |->
                                      IF k \in (DOMAIN value) \ old THEN {} ELSE @[k]]],
                [kind |-> "Ok", previous |-> [k \in old |-> p1[1][k].v]])

\* The set of outcomes insert_many can have (one per order of iteration that
\* makes a difference).
insert_many(p, s, key_chain, value, start_level) ==
    IF Len(key_chain) > Len(p) + 1 THEN {Outcome(p, s, KeyTooMany)}
    ELSE LET r == get_professional(p, key_chain, start_level)
         IN  CASE r.kind = "Ok" -> insert_many_under(p, s, key_chain, value, start_level)
               [] r.kind \in {"KeyChainIncorrect", "KeyNotExist", "KeyTooMany"} ->
                      {Outcome(p, s, r)}
               [] r.kind = "KeyChainEmpty" ->
                      IF start_level > 0 THEN {Outcome(p, s, KeyChainEmpty)}
                      ELSE {insert_many_top(p, s, value)}

\* ------------------------------------------------------ remove_professional

\* h.insert(k, v) for every (k, v) of x: an entry of x replaces one of h
\* that has the same key.
MapExtend(h, x) ==
    [k \in (DOMAIN h) \cup (DOMAIN x) |-> IF k \in DOMAIN x THEN x[k] ELSE h[k]]

\* The loop `for i in (0..len).rev()` over a child's descendants list c, after
\* c.reverse(): c.remove(i) then takes the last element left, which is element
\* len - 1 - i of the list as the child returned it (element len - i here).
RECURSIVE merge_sub_values(_, _, _)
merge_sub_values(sub_values, c, i) ==
    IF i < 0 THEN sub_values
    ELSE LET x == c[Len(c) - i]
         IN  IF i < Len(sub_values)
             THEN merge_sub_values([sub_values EXCEPT ![i + 1] = MapExtend(@, x)], c, i - 1)
             ELSE merge_sub_values(Append(sub_values, x), c, i - 1)

\* A remove that forgets the parent key of the entry it removed.
RemoveOk_parentless(pk, v, descendants) ==
    [kind |-> "Ok", pk |-> None, v |-> v, descendants |-> descendants]

RemoveOk(pk, v, descendants) ==
    [kind |-> "Ok", pk |-> pk, v |-> v, descendants |-> descendants]

\* The set of outcomes of remove_professional: the child set is a HashSet,
\* iterated in an arbitrary order.
RECURSIVE remove_professional(_, _, _, _)
RECURSIVE remove_children(_, _, _, _, _, _, _, _)

\* The loop `for s in sub` in the order o, from its j-th child on; e is the
\* entry removed at `level`.
remove_children(p, s, o, j, level, e, sub_values, my_sub_values) ==
    IF j > Len(o)
    THEN {Outcome(p, s, RemoveOk(e.pk, e.v, <<my_sub_values>> \o sub_values))}
    ELSE UNION {IF c.res.kind # "Ok"
                THEN {Outcome(c.pool, c.sub, Panic)}
                ELSE remove_children(c.pool, c.sub, o, j + 1, level, e,
                         merge_sub_values(sub_values, c.res.descendants,
                                          Len(c.res.descendants) - 1),
                         MapInsert(my_sub_values, o[j], Entry(c.res.pk, c.res.v))) :
                  c \in remove_professional(p, s, <<o[j]>>, level + 1)}

remove_professional(p, s, key_chain, start_level) ==
    LET r == get_professional(p, key_chain, start_level)
    IN  IF r.kind # "Ok" THEN {Outcome(p, s, r)}
        ELSE LET level == Len(key_chain) - 1 + start_level
                 k == key_chain[Len(key_chain)]
                 e == p[level + 1][k]
                 p1 == [p EXCEPT ![level + 1] = MapRemove(@, k)]
             IN  IF level > 0 /\ r.pk = None
                 THEN {Outcome(p1, s, Panic)}
                 ELSE LET s1 == IF level > 0 /\ r.pk[1] \in DOMAIN s[level]
                                THEN [s EXCEPT ![level][r.pk[1]] = @ \ {k}]
                                ELSE s
                      IN  IF k \notin DOMAIN s1[level + 1]
                          THEN {Outcome(p1, s1, Panic)}
                          ELSE LET children == s1[level + 1][k]
                                   s2 == [s1 EXCEPT ![level + 1] = MapRemove(@, k)]
                               IN  IF children = {}
                                   THEN {Outcome(p1, s2, RemoveOk(e.pk, e.v, <<>>))}
                                   ELSE UNION {remove_children(p1, s2, o, 1, level, e,
                                                               <<>>, EmptyMap) :
                                                 o \in Orders(children)}

\* ------------------------------------------------- get_professional_mut, keys

\* The mutable resolver repeats the resolver's loop line for line.
\* A mutable resolver whose final match hands the entry out without comparing
\* its stored parent with the key before it.
RECURSIVE walk_mut_lenient_last(_, _, _, _)
walk_mut_lenient_last(p, key_chain, start_level, i) ==
    LET ii == i + start_level
        ck == key_chain[i + 1]
    IN  IF ck \notin DOMAIN p[ii + 1]
        THEN KeyNotExist(ii, ck)
        ELSE LET pk == p[ii + 1][ck].pk
                 last_key == IF i = 0 THEN None ELSE Some(key_chain[i])
             IN  IF i = Len(key_chain) - 1
                 THEN Ok(pk, p[ii + 1][ck].v)
                 ELSE IF ii > start_level /\ last_key # pk
                      THEN KeyChainIncorrect(ii, ck, pk)
                      ELSE walk_mut_lenient_last(p, key_chain, start_level, i + 1)

RECURSIVE walk_mut(_, _, _, _)
walk_mut(p, key_chain, start_level, i) ==
    LET ii == i + start_level
        ck == key_chain[i + 1]
    IN  IF ck \notin DOMAIN p[ii + 1]
        THEN KeyNotExist(ii, ck)
        ELSE LET pk == p[ii + 1][ck].pk
                 last_key == IF i = 0 THEN None ELSE Some(key_chain[i])
             IN  IF ii > start_level /\ last_key # pk
                 THEN KeyChainIncorrect(ii, ck, pk)
                 ELSE IF i = Len(key_chain) - 1
                      THEN Ok(pk, p[ii + 1][ck].v)
                      ELSE walk_mut(p, key_chain, start_level, i + 1)

get_professional_mut(p, key_chain, start_level) ==
    IF Len(key_chain) = 0 THEN KeyChainEmpty
    ELSE IF Len(key_chain) + start_level > Len(p) THEN KeyTooMany
    ELSE walk_mut(p, key_chain, start_level, 0)

\* self.sub.get(level)
\* A keys that reports a level that holds no key as absent.
keys_hiding_empty(s, level) ==
    IF level < Len(s) /\ s[level + 1] # EmptyMap
    THEN [kind |-> "Some", map |-> s[level + 1]]
    ELSE [kind |-> "None"]

keys(s, level) ==
    IF level < Len(s) THEN [kind |-> "Some", map |-> s[level + 1]] ELSE [kind |-> "None"]

\* ------------------------------------------------------------------ actions

Idle == [op |-> "idle"]

Panicked == last # Idle /\ last.res.kind = "Panic"

\* A mutating call is made while the budget of changes lasts; a call that
\* changes nothing is always allowed.
Allowed(o) ==
    /\ Len(o.pool) <= MaxLevels
    /\ (o.pool = pool /\ o.sub = sub) \/ nmut < MaxMut

Apply(o) ==
    /\ Allowed(o)
    /\ pool' = o.pool
    /\ sub' = o.sub
    /\ nmut' = IF o.pool = pool /\ o.sub = sub THEN nmut ELSE nmut + 1

Init ==
    /\ pool = <<>>
    /\ sub = <<>>
    /\ last = Idle
    /\ nmut = 0

GetProfessional ==
    /\ last = Idle
    /\ \E key_chain \in Chains, start_level \in StartLevels :
          last' = [op |-> "get_professional", key_chain |-> key_chain,
                   start_level |-> start_level,
                   res |-> get_professional(pool, key_chain, start_level)]
    /\ UNCHANGED <<pool, sub, nmut>>

Insert ==
    /\ last = Idle
    /\ \E key_chain \in Chains, value \in Values :
          LET o == insert(pool, sub, key_chain, value)
          IN  /\ Apply(o)
              /\ last' = [op |-> "insert", key_chain |-> key_chain, value |-> value,
                          res |-> o.res]

InsertMany ==
    /\ last = Idle
    /\ \E key_chain \in ParentChains, value \in Batches, start_level \in StartLevels :
          \E o \in insert_many(pool, sub, key_chain, value, start_level) :
              /\ Apply(o)
              /\ last' = [op |-> "insert_many", key_chain |-> key_chain, value |-> value,
                          start_level |-> start_level, res |-> o.res]

RemoveProfessional ==
    /\ last = Idle
    /\ \E key_chain \in RemoveChains, start_level \in StartLevels :
          \E o \in remove_professional(pool, sub, key_chain, start_level) :
              /\ Apply(o)
              /\ last' = [op |-> "remove_professional", key_chain |-> key_chain,
                          start_level |-> start_level, res |-> o.res]

GetProfessionalMut ==
    /\ last = Idle
    /\ \E key_chain \in MutChains, start_level \in StartLevels :
          last' = [op |-> "get_professional_mut", key_chain |-> key_chain,
                   start_level |-> start_level,
                   res |-> get_professional_mut(pool, key_chain, start_level)]
    /\ UNCHANGED <<pool, sub, nmut>>

KeysAt ==
    /\ last = Idle
    /\ \E level \in 0..(MaxLevels + 1) :
          last' = [op |-> "keys", level |-> level, res |-> keys(sub, level)]
    /\ UNCHANGED <<pool, sub, nmut>>

\* The caller takes the result; the map is ready for the next call.
Return ==
    /\ last # Idle
    /\ ~Panicked
    /\ last' = Idle
    /\ UNCHANGED <<pool, sub, nmut>>

Next ==
    \/ GetProfessional
    \/ GetProfessionalMut
    \/ Insert
    \/ InsertMany
    \/ RemoveProfessional
    \/ KeysAt
    \/ Return

Spec == Init /\ [][Next]_vars

\* ------------------------------------------------- runs that grow deep trees

\* The same calls with longer chains and a larger budget of changes, and
\* without the read-only calls: trees of four levels are built and cut.
ApplyDeep(o) ==
    /\ (o.pool = pool /\ o.sub = sub) \/ nmut < MaxDeepMut
    /\ pool' = o.pool
    /\ sub' = o.sub
    /\ nmut' = IF o.pool = pool /\ o.sub = sub THEN nmut ELSE nmut + 1

InsertDeep ==
    /\ last = Idle
    /\ \E key_chain \in DeepChains, value \in DeepValues :
          LET o == insert(pool, sub, key_chain, value)
          IN  /\ ApplyDeep(o)
              /\ last' = [op |-> "insert", key_chain |-> key_chain, value |-> value,
                          res |-> o.res]

InsertManyDeep ==
    /\ last = Idle
    /\ \E key_chain \in ParentChains, value \in DeepBatches, start_level \in DeepStartLevels :
          \E o \in insert_many(pool, sub, key_chain, value, start_level) :
              /\ ApplyDeep(o)
              /\ last' = [op |-> "insert_many", key_chain |-> key_chain, value |-> value,
                          start_level |-> start_level, res |-> o.res]

RemoveDeep ==
    /\ last = Idle
    /\ \E key_chain \in RemoveChains, start_level \in DeepStartLevels :
          \E o \in remove_professional(pool, sub, key_chain, start_level) :
              /\ ApplyDeep(o)
              /\ last' = [op |-> "remove_professional", key_chain |-> key_chain,
                          start_level |-> start_level, res |-> o.res]

NextDeep ==
    \/ InsertDeep
    \/ InsertManyDeep
    \/ RemoveDeep
    \/ Return

SpecDeep == Init /\ [][NextDeep]_vars

\* ================================================================== claims

\* The lineage of a chain, stated on the pool alone: the chain is not empty,
\* fits in the existing levels from level S on, each key is present at its
\* level, and each key after the first has the preceding key as its stored
\* parent.  (Chain index i, 1-based, addresses level S + i - 1, held at
\* index S + i of the pool.)
Present(p, C, S, i) == C[i] \in DOMAIN p[S + i]

Lineage(p, C, S, i) == i = 1 \/ p[S + i][C[i]].pk = Some(C[i - 1])

Fits(p, C, S) == Len(C) > 0 /\ Len(C) + S <= Len(p)

Resolves(p, C, S) ==
    /\ Fits(p, C, S)
    /\ \A i \in 1..Len(C) : Present(p, C, S, i) /\ Lineage(p, C, S, i)

\* The chain indexes at which a chain that fits fails, and the first of them.
Failing(p, C, S) == {i \in 1..Len(C) : ~(Present(p, C, S, i) /\ Lineage(p, C, S, i))}

FirstFailing(p, C, S) == CHOOSE i \in Failing(p, C, S) : \A j \in Failing(p, C, S) : i <= j

\* The entries at index L of a vector of levels, none if it has no such level.
LevelOf(p, L) == IF L <= Len(p) THEN p[L] ELSE EmptyMap

\* All keys but the last.
Prefix(C) == SubSeq(C, 1, Len(C) - 1)

\* The step is a call of insert (made from the idle state).
InsertStep == last = Idle /\ last'.op = "insert"

\* C1: whenever insert(C, V) returns without an error, get(C) called right
\* after it returns V.
C1_RoundTrip ==
    (last.op = "insert" /\ last.res.kind = "Ok")
        => get(pool, last.key_chain) = Some(last.value)

\* C2: an insert of two or more keys whose parent prefix does not resolve from
\* level 0 returns an error and leaves the map unchanged; a successful insert
\* creates or alters an entry only at level len(C) - 1, keyed by the last
\* chain key, with the second-to-last chain key as its parent.
C2_PrefixMustResolve ==
    [][InsertStep =>
        LET C == last'.key_chain
            n == Len(C)
        IN  /\ (n >= 2 /\ ~Resolves(pool, Prefix(C), 0))
                   => (IsErr(last'.res) /\ pool' = pool /\ sub' = sub)
            /\ last'.res.kind = "Ok"
                   => /\ Len(pool') >= n
                      /\ C[n] \in DOMAIN pool'[n]
                      /\ pool'[n][C[n]].pk = (IF n >= 2 THEN Some(C[n - 1]) ELSE None)
                      /\ \A L \in 1..Len(pool') :
                            \A k \in (DOMAIN LevelOf(pool, L)) \cup (DOMAIN pool'[L]) :
                               (L # n \/ k # C[n])
                                  => (k \in DOMAIN LevelOf(pool, L) /\ k \in DOMAIN pool'[L]
                                        /\ pool'[L][k] = pool[L][k])]_vars

\* C3: no call panics: every call returns a value or one of the four errors.
C3_NoPanic == ~Panicked

\* C4: get_professional(chain, S) succeeds exactly when the chain is not
\* empty, fits in the levels from S on, every key is present at its level and
\* every key after the first has the preceding chain key as its stored parent;
\* it then returns the stored parent and the stored value of the last key.
C4_ResolvesIffLineage ==
    last.op = "get_professional" =>
        LET C == last.key_chain
            S == last.start_level
        IN  /\ last.res.kind = "Ok" <=> Resolves(pool, C, S)
            /\ last.res.kind = "Ok" =>
                  /\ last.res.pk = pool[S + Len(C)][C[Len(C)]].pk
                  /\ last.res.v = pool[S + Len(C)][C[Len(C)]].v

\* C4's case: a chain of two or more keys has resolved, and in the same map
\* some chain whose keys are all present at their levels does not resolve.
C4_Witness ==
    /\ last.op = "get_professional"
    /\ last.res.kind = "Ok"
    /\ Len(last.key_chain) >= 2
    /\ \E C \in Chains :
          /\ Fits(pool, C, 0)
          /\ \A i \in 1..Len(C) : Present(pool, C, 0, i)
          /\ get_professional(pool, C, 0).kind = "KeyChainIncorrect"

C6_ErrorPrecedence ==
    last.op = "get_professional" =>
        LET C == last.key_chain
            S == last.start_level
        IN  /\ Len(C) = 0 => last.res = KeyChainEmpty
            /\ (Len(C) > 0 /\ Len(C) + S > Len(pool)) => last.res = KeyTooMany
            /\ last.res.kind \in {"KeyNotExist", "KeyChainIncorrect"} => Fits(pool, C, S)

\* C6's case: KeyTooMany for a chain that is too long although the part of it
\* that lies within the existing levels resolves, in a map where the empty
\* chain is KeyChainEmpty at a start level above 0.
C6_Witness ==
    /\ last.op = "get_professional"
    /\ last.res = KeyTooMany
    /\ last.start_level < Len(pool)
    /\ Resolves(pool, SubSeq(last.key_chain, 1, Len(pool) - last.start_level),
                last.start_level)
    /\ \E S \in StartLevels : S > 0 /\ get_professional(pool, <<>>, S) = KeyChainEmpty
\* C7: a key that exists at a level under one parent cannot be inserted at
\* that level under another: the insert of a chain whose prefix resolves and
\* whose last key is stored at the target level with a different parent fails
\* with KeyChainIncorrect and changes nothing; and after every step that changes
\* the pool (the empty pool being the start) a key at a level resolves under at
\* most one parent.
C7_LevelWideUnique ==
    [][/\ InsertStep =>
            LET C == last'.key_chain
                n == Len(C)
            IN  (/\ n >= 2
                 /\ Resolves(pool, Prefix(C), 0)
                 /\ n <= Len(pool)
                 /\ C[n] \in DOMAIN pool[n]
                 /\ pool[n][C[n]].pk # Some(C[n - 1]))
                    => /\ last'.res.kind = "KeyChainIncorrect"
                       /\ last'.res.level = n - 1
                       /\ pool' = pool
                       /\ sub' = sub
       /\ pool' # pool =>
             \A S \in 0..(Len(pool') - 2) : \A K, P1, P2 \in Keys :
                (/\ get_professional(pool', <<P1, K>>, S).kind = "Ok"
                 /\ get_professional(pool', <<P2, K>>, S).kind = "Ok") => P1 = P2]_vars

\* C7's case: an insert was rejected because its last key, under a parent
\* chain that resolves, is stored under another parent.
C7_Witness ==
    /\ last.op = "insert"
    /\ last.res.kind = "KeyChainIncorrect"
    /\ last.res.level = Len(last.key_chain) - 1
    /\ Resolves(pool, Prefix(last.key_chain), 0)
    /\ get_advanced(pool, <<last.key_chain[Len(last.key_chain)]>>, last.res.level) # None

\* C8: an insert of a chain that resolves to a value V1 returns Ok(Some(V1))
\* and get(C) then returns the new value; and a successful insert returns
\* Ok(None) exactly when the target key was not present at the target level
\* before the call.
C8_Overwrite ==
    [][InsertStep =>
        LET C == last'.key_chain
            n == Len(C)
        IN  /\ Resolves(pool, C, 0)
                => /\ last'.res = [kind |-> "Ok", old |-> Some(pool[n][C[n]].v)]
                   /\ get(pool', C) = Some(last'.value)
            /\ last'.res.kind = "Ok"
                => (last'.res.old = None <=> C[n] \notin DOMAIN LevelOf(pool, n))]_vars

\* C9: with L + 1 levels, an insert of a chain of L + 3 keys or more fails
\* with KeyTooMany, whatever the keys, and changes nothing (on the empty map:
\* a chain of 2 keys or more).
C9_DepthLimit ==
    [][InsertStep =>
        (Len(last'.key_chain) >= Len(pool) + 2
            => last'.res = KeyTooMany /\ pool' = pool /\ sub' = sub)]_vars

\* C9's case: a map with levels rejected a chain that skips a level.
C9_Witness ==
    /\ last.op = "insert"
    /\ last.res = KeyTooMany
    /\ Len(pool) >= 1
    /\ Len(last.key_chain) >= Len(pool) + 2

\* C10: with L + 1 levels, an insert of a chain of L + 2 keys succeeds: it
\* returns Ok(None), the number of levels grows by one, the new deepest level
\* holds exactly the last chain key with the second-to-last chain key as its
\* parent and the given value, that key has an empty child set and is in its
\* parent's child set (on the empty map: level 0 holds the key, no parent).
C10_ExtendByOneLevel ==
    [][InsertStep =>
        LET C == last'.key_chain
            n == Len(C)
        IN  n = Len(pool) + 1
               => /\ last'.res = [kind |-> "Ok", old |-> None]
                  /\ Len(pool') = n
                  /\ Len(sub') = n
                  /\ pool'[n] = MapInsert(EmptyMap, C[n],
                                   Entry(IF n >= 2 THEN Some(C[n - 1]) ELSE None,
                                         last'.value))
                  /\ sub'[n] = MapInsert(EmptyMap, C[n], {})
                  /\ n >= 2 => (C[n - 1] \in DOMAIN sub'[n - 1]
                                  /\ C[n] \in sub'[n - 1][C[n - 1]])]_vars

\* ------------------------------------------------------------------ removal

\* The step is a call of remove_professional that returns a removed entry.
RemoveStep ==
    /\ last = Idle
    /\ last'.op = "remove_professional"
    /\ last'.res.kind = "Ok"

\* The index in the vector of levels, and the key, of the entry a chain names.
TargetIndex(C, S) == S + Len(C)

TargetKey(C) == C[Len(C)]

\* The entries (index of the level, key) reachable from the entry k at index
\* i through the stored parent links, the entry itself included.
RECURSIVE Subtree(_, _, _)
Subtree(p, i, k) ==
    {<<i, k>>} \cup
    (IF i + 1 > Len(p) THEN {}
     ELSE UNION {Subtree(p, i + 1, c) : c \in {x \in DOMAIN p[i + 1] : p[i + 1][x].pk = Some(k)}})

\* All entries of a map.
EntriesOf(p) == {<<i, k>> \in (1..Len(p)) \X Keys : k \in DOMAIN p[i]}

\* The child set the index records for an entry, none if it records nothing.
ChildSet(s, i, k) == IF i <= Len(s) /\ k \in DOMAIN s[i] THEN Some(s[i][k]) ELSE None

\* C11: a successful remove of the entry E deletes E and every entry reachable
\* from E through parent links, takes E out of its parent's child set, makes
\* lookups of the deleted entries fail with KeyNotExist, and leaves every other
\* entry with its key, parent, value and (E's parent apart) its child set.
C11_RemovesExactlySubtree ==
    [][RemoveStep =>
        LET C == last'.key_chain
            S == last'.start_level
            i == TargetIndex(C, S)
            k == TargetKey(C)
            T == Subtree(pool, i, k)
        IN  /\ Len(pool') = Len(pool)
            /\ \A e \in T :
                  /\ e[2] \notin DOMAIN pool'[e[1]]
                  /\ get_professional(pool', <<e[2]>>, e[1] - 1).kind = "KeyNotExist"
            /\ get_professional(pool', C, S).kind = "KeyNotExist"
            /\ i > 1 => \A P \in DOMAIN sub'[i - 1] :
                  pool[i][k].pk = Some(P) => k \notin sub'[i - 1][P]
            /\ \A e \in EntriesOf(pool) \ T :
                  /\ e[2] \in DOMAIN pool'[e[1]]
                  /\ pool'[e[1]][e[2]] = pool[e[1]][e[2]]
                  /\ ChildSet(sub', e[1], e[2]) =
                        IF e[1] = i - 1 /\ pool[i][k].pk = Some(e[2])
                        THEN Some(sub[e[1]][e[2]] \ {k})
                        ELSE ChildSet(sub, e[1], e[2])]_vars

\* The keys at index i + 1 whose stored parent is k.
ChildrenByLink(p, i, k) == {x \in DOMAIN LevelOf(p, i + 1) : p[i + 1][x].pk = Some(k)}

\* The child index records, for every entry, exactly the entries whose stored
\* parent it is.
IndexAgrees(p, s) ==
    /\ Len(s) = Len(p)
    /\ \A i \in 1..Len(p) :
          /\ DOMAIN s[i] = DOMAIN p[i]
          /\ \A k \in DOMAIN p[i] : s[i][k] = ChildrenByLink(p, i, k)

\* The number of levels a subtree rooted at index i has below its root.
Height(T, i) == CHOOSE h \in 0..MaxLevels + MaxDeepLen :
    /\ \E e \in T : e[1] = i + h
    /\ \A e \in T : e[1] <= i + h

\* The entries of a subtree that live d levels below its root, as a map.
AtDepth(p, T, i, d) == [x \in {y \in Keys : <<i + d, y>> \in T} |-> p[i + d][x]]

\* C12: the descendants list of a successful remove has one element per level
\* of the removed subtree below its root, and its element at index d holds
\* exactly the removed entries that lived d + 1 levels below the root. Stated
\* for maps whose child index agrees with the parent links, so that it fails
\* only for the merge itself.
C12_MergeByRelativeDepth ==
    [][RemoveStep /\ IndexAgrees(pool, sub) =>
        LET C == last'.key_chain
            S == last'.start_level
            i == TargetIndex(C, S)
            T == Subtree(pool, i, TargetKey(C))
            descendants == last'.res.descendants
        IN  /\ Len(descendants) = Height(T, i)
            /\ \A d \in 1..Len(descendants) : descendants[d] = AtDepth(pool, T, i, d)]_vars

\* The entries (index of the level, key) a step deletes from the map.
Deleted == EntriesOf(pool) \ EntriesOf(pool')

\* The places (index in the list, key) of a descendants list.
Places(descendants) ==
    {<<d, x>> \in (1..Len(descendants)) \X Keys : x \in DOMAIN descendants[d]}

\* C13: the descendants list of a successful remove holds exactly the entries
\* the call deleted other than the removed entry itself, each once, with its
\* own stored parent and value, and nothing that remains in the map.
C13_RemovalConserves ==
    [][RemoveStep =>
        LET C == last'.key_chain
            S == last'.start_level
            cut == Deleted \ {<<TargetIndex(C, S), TargetKey(C)>>}
            descendants == last'.res.descendants
        IN  /\ Cardinality(Places(descendants)) = Cardinality(cut)
            /\ \A e \in cut : \E d \in 1..Len(descendants) :
                  /\ e[2] \in DOMAIN descendants[d]
                  /\ descendants[d][e[2]] = pool[e[1]][e[2]]
            /\ \A q \in Places(descendants) : \E e \in cut :
                  /\ e[2] = q[2]
                  /\ descendants[q[1]][q[2]] = pool[e[1]][e[2]]]_vars

\* C14: a successful remove returns the stored parent key of the removed entry
\* (none exactly when the entry is at level 0) and its stored value, and an
\* empty descendants list exactly when the child set of the entry was empty.
C14_RemoveReturns ==
    [][RemoveStep =>
        LET C == last'.key_chain
            i == TargetIndex(C, last'.start_level)
            k == TargetKey(C)
        IN  /\ last'.res.pk = pool[i][k].pk
            /\ last'.res.v = pool[i][k].v
            /\ last'.res.pk = None <=> i = 1
            /\ last'.res.descendants = <<>> <=> sub[i][k] = {}]_vars

C14_Witness ==
    /\ last # Idle
    /\ last.op = "remove_professional"
    /\ last.res.kind = "Ok"
    /\ last.res.pk = None
    /\ last.res.v = "v2"
    /\ last.res.descendants # <<>>

\* -------------------------------------------------------------- insert_many

\* The step is a call of insert_many (made from the idle state).
InsertManyStep == last = Idle /\ last'.op = "insert_many"

\* The incoming keys that exist at index i under a parent other than P.
Conflicting(p, value, i, P) ==
    {k \in (DOMAIN value) \cap (DOMAIN LevelOf(p, i)) : p[i][k].pk # Some(P)}

\* The previous values of the incoming keys that exist at index i.
PreviousAt(p, value, i) ==
    [k \in (DOMAIN value) \cap (DOMAIN LevelOf(p, i)) |-> p[i][k].v]

\* C15: insert_many under a parent chain that resolves, with no incoming key
\* stored under another parent at the target level, succeeds, creates the
\* target level if need be, makes every incoming key resolve to its new value
\* through the parent chain and on its own at the target level, returns the
\* previous values of exactly the keys that existed, and gives each new key an
\* empty child set and membership in the parent's child set.
C15_BatchUnderParent ==
    [][InsertManyStep =>
        LET C == last'.key_chain
            S == last'.start_level
            value == last'.value
            i == Len(C) + S + 1
            P == TargetKey(C)
        IN  (C # <<>> /\ Resolves(pool, C, S) /\ Conflicting(pool, value, i, P) = {}) =>
            /\ last'.res.kind = "Ok"
            /\ last'.res.previous = PreviousAt(pool, value, i)
            /\ Len(pool') = (IF i > Len(pool) THEN i ELSE Len(pool))
            /\ Len(sub') = Len(pool')
            /\ \A k \in DOMAIN value :
                  /\ get_professional(pool', Append(C, k), S) = Ok(Some(P), value[k])
                  /\ get_professional(pool', <<k>>, i - 1) = Ok(Some(P), value[k])
                  /\ k \notin DOMAIN LevelOf(pool, i) =>
                        /\ ChildSet(sub', i, k) = Some({})
                        /\ ChildSet(sub', i - 1, P) # None
                        /\ k \in sub'[i - 1][P]]_vars

\* C16: when an incoming key is stored at the target level under another
\* parent, insert_many fails with KeyChainIncorrect for that level, key and
\* recorded parent; when the parent chain does not resolve it fails with the
\* resolver's error; in both cases the map is unchanged.
C16_BatchAllOrNothing ==
    [][InsertManyStep =>
        LET C == last'.key_chain
            S == last'.start_level
            i == Len(C) + S + 1
            bad == Conflicting(pool, last'.value, i, TargetKey(C))
            res == last'.res
        IN  /\ (C # <<>> /\ Resolves(pool, C, S) /\ bad # {}) =>
                  /\ res.kind = "KeyChainIncorrect"
                  /\ res.level = i - 1
                  /\ res.key \in bad
                  /\ res.last_key = pool[i][res.key].pk
                  /\ pool' = pool /\ sub' = sub
            /\ (C # <<>> /\ ~Resolves(pool, C, S)) =>
                  /\ res.kind \in {"KeyNotExist", "KeyChainIncorrect", "KeyTooMany"}
                  /\ res = (IF Len(C) > Len(pool) + 1 THEN KeyTooMany
                            ELSE get_professional(pool, C, S))
                  /\ pool' = pool /\ sub' = sub]_vars

\* A batch of two keys has failed for the one that is stored under another
\* parent; the other one is new to the target level.
C16_Witness ==
    /\ last # Idle
    /\ last.op = "insert_many"
    /\ last.res.kind = "KeyChainIncorrect"
    /\ last.res.level = Len(last.key_chain) + last.start_level
    /\ \E k \in DOMAIN last.value :
          k \notin DOMAIN pool[Len(last.key_chain) + last.start_level + 1]

\* C17: insert_many with an empty parent chain at start level 0 succeeds in
\* every state, creates level 0 if the map is empty, stores every incoming
\* key at level 0 without a parent, returns the previous values of exactly
\* the keys that existed and leaves their child sets as they were; at a start
\* level above 0 it fails with KeyChainEmpty and changes nothing.
C17_BatchAtTop ==
    [][InsertManyStep /\ last'.key_chain = <<>> =>
        LET value == last'.value
        IN  IF last'.start_level = 0
            THEN /\ last'.res.kind = "Ok"
                 /\ last'.res.previous = PreviousAt(pool, value, 1)
                 /\ Len(pool') = (IF pool = <<>> THEN 1 ELSE Len(pool))
                 /\ Len(sub') = Len(pool')
                 /\ \A k \in DOMAIN value :
                       /\ k \in DOMAIN pool'[1]
                       /\ pool'[1][k] = Entry(None, value[k])
                       /\ k \in DOMAIN LevelOf(pool, 1) =>
                             ChildSet(sub', 1, k) = ChildSet(sub, 1, k)
                 /\ \A e \in EntriesOf(pool) :
                       (e[1] > 1 \/ e[2] \notin DOMAIN value) =>
                           /\ e \in EntriesOf(pool')
                           /\ pool'[e[1]][e[2]] = pool[e[1]][e[2]]
            ELSE /\ last'.res = KeyChainEmpty
                 /\ pool' = pool /\ sub' = sub]_vars

\* A batch at the top level has overwritten a key that has children.
C17_Witness ==
    /\ last # Idle
    /\ last.op = "insert_many"
    /\ last.key_chain = <<>>
    /\ last.start_level = 0
    /\ last.res.kind = "Ok"
    /\ \E k \in DOMAIN last.res.previous :
          /\ last.res.previous[k] # last.value[k]
          /\ ChildSet(sub, 1, k) \notin {None, Some({})}

\* ---------------------------------------------------------- the child index

\* C18: keys(level) is absent exactly when the level does not exist, and
\* otherwise its keys are the keys the pool stores at that level, which are
\* the keys a single-key lookup at that level finds.
C18_KeysDomain ==
    \A level \in 0..Len(pool) + 1 :
        /\ keys(sub, level).kind = "None" <=> level >= Len(pool)
        /\ level < Len(pool) =>
              /\ keys(sub, level).kind = "Some"
              /\ DOMAIN keys(sub, level).map = DOMAIN pool[level + 1]
              /\ DOMAIN pool[level + 1] =
                    {k \in Keys : get_advanced(pool, <<k>>, level) # None}

\* C19: for every key P stored at a level, the child set keys(level)[P] is
\* the set of keys at the next level whose stored parent is P.
C19_IndexInvertsLinks ==
    \A i \in 1..Len(pool) : \A P \in DOMAIN pool[i] :
        ChildSet(sub, i, P) = Some(ChildrenByLink(pool, i, P))

\* --------------------------------------------------------- suffix addressing

\* The chain without its first i keys.
Suffix(C, i) == SubSeq(C, i + 1, Len(C))

\* C20: when a chain resolves from level 0, each of its suffixes resolves at
\* the start level that is the number of keys dropped, to the same parent key
\* and value; and every stored key is found by a single-key lookup at its
\* level, whatever its parent (stated for the map between calls and for the
\* map a panic leaves, which are all the maps there are).
C20_SuffixAddressing ==
    /\ (last # Idle /\ last.op = "get_professional" /\ last.start_level = 0
            /\ last.res.kind = "Ok") =>
          \A i \in 0..Len(last.key_chain) - 1 :
              get_professional(pool, Suffix(last.key_chain, i), i) = last.res
    /\ (last = Idle \/ Panicked) =>
          \A i \in 1..Len(pool) : \A k \in DOMAIN pool[i] :
              get_professional(pool, <<k>>, i - 1) = Ok(pool[i][k].pk, pool[i][k].v)

\* A chain of three keys has resolved from level 0.
C20_Witness ==
    /\ last # Idle
    /\ last.op = "get_professional"
    /\ last.start_level = 0
    /\ last.res.kind = "Ok"
    /\ Len(last.key_chain) = 3

\* ------------------------------------------------------- errors and shape

\* The start level of the last call: insert always resolves from level 0.
LastStart == IF last.op = "insert" THEN 0 ELSE last.start_level

\* C21: when the resolver, or insert, fails with KeyChainIncorrect, the key of
\* the error is the chain element at the level of the error, it is stored at
\* that level, and last_key is the parent stored for it, which differs from
\* the chain element before it.
C21_IncorrectPayload ==
    (last # Idle /\ last.op \in {"get_professional", "insert"}
        /\ last.res.kind = "KeyChainIncorrect") =>
    LET C == last.key_chain
        L == last.res.level
        j == L - LastStart + 1
    IN  /\ j \in 2..Len(C)
        /\ last.res.key = C[j]
        /\ L < Len(pool)
        /\ C[j] \in DOMAIN pool[L + 1]
        /\ last.res.last_key = pool[L + 1][C[j]].pk
        /\ last.res.last_key # Some(C[j - 1])

\* An insert has failed with KeyChainIncorrect.
C21_Witness ==
    /\ last # Idle
    /\ last.op = "insert"
    /\ last.res.kind = "KeyChainIncorrect"
    /\ last.res.last_key # None

\* C22: every entry at a level above 0 names a parent key that is stored at
\* the level above it. Stated for the maps that calls return, the ones a
\* panic leaves aside.
C22_NoDanglingParent ==
    ~Panicked =>
        \A i \in 2..Len(pool) : \A k \in DOMAIN pool[i] :
            /\ pool[i][k].pk # None
            /\ pool[i][k].pk[1] \in DOMAIN pool[i - 1]

C24_ParentIffDeeper ==
    /\ (last = Idle \/ Panicked) =>
          \A i \in 1..Len(pool) : \A k \in DOMAIN pool[i] :
              pool[i][k].pk = None <=> i = 1
    /\ (last # Idle /\ last.op = "get_professional" /\ last.res.kind = "Ok") =>
          (last.res.pk = None <=> Len(last.key_chain) + last.start_level = 1)

C24_Witness ==
    /\ last # Idle
    /\ last.op = "get_professional"
    /\ last.res.kind = "Ok"
    /\ last.start_level = 1
    /\ Len(last.key_chain) = 1
    /\ last.res.pk # None

\* C25: no call shortens the vectors of levels and none lengthens them by
\* more than one; a level keys reports stays reported; and a lookup whose
\* last key addresses a level that exists and holds no key fails, never with
\* KeyTooMany, and with KeyNotExist for that level when the keys before the
\* last resolve.
C25_LevelsOnlyGrow ==
    [][/\ Len(pool') \in {Len(pool), Len(pool) + 1}
       /\ Len(sub') \in {Len(sub), Len(sub) + 1}
       /\ \A level \in 0..Len(sub) :
             keys(sub, level).kind = "Some" => keys(sub', level).kind = "Some"
       /\ (last = Idle /\ last'.op = "get_professional") =>
             LET C == last'.key_chain
                 S == last'.start_level
             IN  (Fits(pool, C, S) /\ pool[Len(C) + S] = EmptyMap) =>
                   /\ last'.res.kind \in {"KeyNotExist", "KeyChainIncorrect"}
                   /\ (Len(C) = 1 \/ Resolves(pool, Prefix(C), S)) =>
                         last'.res = KeyNotExist(Len(C) + S - 1, TargetKey(C))]_vars

\* A lookup has addressed a level that a remove has emptied.
C25_Witness ==
    /\ last # Idle
    /\ last.op = "get_professional"
    /\ last.res.kind = "KeyNotExist"
    /\ Len(last.key_chain) + last.start_level <= Len(pool)
    /\ pool[Len(last.key_chain) + last.start_level] = EmptyMap
    /\ keys(sub, Len(last.key_chain) + last.start_level - 1) =
          [kind |-> "Some", map |-> EmptyMap]

\* ---------------------------------------------------------------- overwrite

\* The pool p with the values of the keys of `value` at index i replaced.
Revalued(p, i, value) ==
    [p EXCEPT ![i] = [k \in DOMAIN @ |->
                         IF k \in DOMAIN value THEN Entry(@[k].pk, value[k]) ELSE @[k]]]

\* C26: an insert whose chain resolves, and an insert_many all of whose keys
\* exist at the target level, change the values of the entries they name and
\* nothing else: parents, child sets and all other entries stay; in a batch
\* that also brings new keys, the overwritten entries keep parent and child
\* set and the other entries of the pool stay as they were.
C26_OverwriteValueOnly ==
    [][/\ (InsertStep /\ Resolves(pool, last'.key_chain, 0)) =>
             LET C == last'.key_chain
             IN  /\ last'.res = [kind |-> "Ok", old |-> Some(pool[Len(C)][TargetKey(C)].v)]
                 /\ pool' = Revalued(pool, Len(C), [k \in {TargetKey(C)} |-> last'.value])
                 /\ sub' = sub
       /\ (InsertManyStep /\ last'.res.kind = "Ok") =>
             LET C == last'.key_chain
                 i == Len(C) + last'.start_level + 1
                 value == last'.value
                 old == (DOMAIN value) \cap (DOMAIN LevelOf(pool, i))
             IN  /\ \A k \in old :
                       /\ pool'[i][k] = Entry(pool[i][k].pk, value[k])
                       /\ ChildSet(sub', i, k) = ChildSet(sub, i, k)
                 /\ \A e \in EntriesOf(pool) :
                       (e[1] # i \/ e[2] \notin old) =>
                           /\ e \in EntriesOf(pool')
                           /\ pool'[e[1]][e[2]] = pool[e[1]][e[2]]
                 /\ (old = DOMAIN value /\ old # {}) =>
                       /\ pool' = Revalued(pool, i, value)
                       /\ sub' = sub]_vars

\* An insert has given a new value to an entry that has children.
C26_Witness ==
    /\ last # Idle
    /\ last.op = "insert"
    /\ last.res.kind = "Ok"
    /\ last.res.old \notin {None, Some(last.value)}
    /\ ChildSet(sub, Len(last.key_chain), TargetKey(last.key_chain)) \notin {None, Some({})}

\* ------------------------------------------------------------------- errors

\* The step is a call of remove_professional, whatever its outcome.
RemoveCall == last = Idle /\ last'.op = "remove_professional"

\* C27: an insert or a remove that returns an error leaves pool and sub as
\* they were; a remove returns the removed entry exactly when its chain
\* resolves at the start level, and the resolver's error when it does not.
C27_ErrorsChangeNothing ==
    [][/\ (InsertStep /\ IsErr(last'.res)) => (pool' = pool /\ sub' = sub)
       /\ RemoveCall =>
             LET C == last'.key_chain
                 S == last'.start_level
             IN  /\ IsErr(last'.res) => (pool' = pool /\ sub' = sub)
                 /\ ~Resolves(pool, C, S) => last'.res = get_professional(pool, C, S)
                 /\ Resolves(pool, C, S) <=> last'.res.kind = "Ok"]_vars

\* C28: in every map, for every chain and start level, get_professional_mut
\* returns what get_professional returns (the same error with the same
\* payload, or the same parent key and the value of the same entry). The
\* comparison is stated for the map between calls and the map a panic leaves,
\* which are all the maps there are; neither call is given a way to change
\* pool or sub.
C28_MutSameAsGet ==
    /\ (last = Idle \/ Panicked) =>
          \A C \in Chains, S \in StartLevels :
              get_professional_mut(pool, C, S) = get_professional(pool, C, S)
    /\ (last # Idle /\ last.op = "get_professional_mut") =>
          last.res = get_professional(pool, last.key_chain, last.start_level)

\* The mutable resolver has rejected a chain of two keys at its last key,
\* which is stored under another parent.
C28_Witness ==
    /\ last # Idle
    /\ last.op = "get_professional_mut"
    /\ last.res.kind = "KeyChainIncorrect"
    /\ last.res.level = Len(last.key_chain) + last.start_level - 1

\* ------------------------------------------------------------- determinism

\* C29: what remove_professional returns and the map it leaves depend on the
\* map and the arguments only: every order in which the child sets can be
\* iterated gives the outcome that the call had.
C29_RemovalDeterministic ==
    [][RemoveCall =>
          \A o \in remove_professional(pool, sub, last'.key_chain, last'.start_level) :
              o = Outcome(pool', sub', last'.res)]_vars

====
